---- MODULE Spec2Model ----
(***************************************************************************)
(* Model of pymor/discretizations/basic.py: DiscretizationBase,            *)
(* StationaryDiscretization and InstationaryDiscretization.                *)
(*                                                                         *)
(* Python objects are records carrying an identity (id); `is` is equality  *)
(* of ids, and since no operator class defines __eq__, `==` on operators   *)
(* is identity as well.  Vector spaces compare by value.                   *)
(***************************************************************************)
EXTENDS Integers, Sequences, FiniteSets, TLC

(* ------------------------------------------------------------------ *)
(* Bounds                                                              *)
(* ------------------------------------------------------------------ *)
MaxNt == 1        \* number of step counts offered to with_(time_stepper_nt=...)
MaxT == 1         \* values of '_t' a caller may put into mu: 0..MaxT
MaxSolves == 4    \* solve calls per behaviour of the caching specification
MaxAlloc == 2     \* VectorOperators created per behaviour

(* ------------------------------------------------------------------ *)
(* Values                                                              *)
(* ------------------------------------------------------------------ *)
\* A value is named by a string: object identity is equality of names.
\* Python's None
None == "None"
\* "no such key" in a dict / "keyword not given" in **kwargs
Missing == "-"

\* operators
L == "L"
N == "N"
F == "F"
G == "G"
Fn == "Fn"
I0 == "I0"
E == "E"
\* a VectorArray of length 1
u0 == "u0"
\* an object that is neither an Operator nor a VectorArray
junk == "junk"

\* NumpyVectorSpace(1)
NumpyVectorSpace1 == "R1"

VectorArrays == {u0}

\* VectorOperator(initial_data, name='initial_data'): a new operator object
\* on every call, told apart by the allocation index
VectorOperator(va, nid) == "VectorOperator(" \o va \o ")#" \o ToString(nid)

VectorOperators(va) == {VectorOperator(va, n) : n \in 0..MaxAlloc}

Operators == {L, N, F, G, Fn, I0, E} \cup UNION {VectorOperators(va) : va \in VectorArrays}

isOperator(v) == v \in Operators
isVectorArray(v) == v \in VectorArrays
\* hasattr(v, 'source')
hasSpaces(v) == isOperator(v)
isVectorOperator(v) == \E va \in VectorArrays : v \in VectorOperators(va)

\* the space a VectorArray lives in
space(va) == "V"

\* op.source
source(op) ==
    CASE op \in {L, N, F, G, Fn} -> "V"
      [] op \in {I0, E} -> NumpyVectorSpace1
      [] isVectorOperator(op) -> NumpyVectorSpace1
      [] OTHER -> "-"

\* op.range
range(op) ==
    CASE op \in {L, N, I0} -> "V"
      [] op \in {F, G, Fn, E} -> NumpyVectorSpace1
      [] isVectorOperator(op) -> space(CHOOSE va \in VectorArrays : op \in VectorOperators(va))
      [] OTHER -> "-"

\* op.linear; a VectorOperator is linear
linear(op) == op \in {L, F, G, I0, E} \/ isVectorOperator(op)

(* time steppers *)
TS(k, h, n) == [kind |-> k, hasnt |-> h, nt |-> n]
tsNone == TS("none", FALSE, 0)
tsMissing == TS("missing", FALSE, 0)
tsJunk == TS("obj", FALSE, 0)
tsPlain == TS("ts", FALSE, 0)
tsNt(n) == TS("ts", TRUE, n)

\* isinstance(time_stepper, TimeStepperInterface)
isTimeStepper(ts) == ts.kind = "ts"
\* hasattr(time_stepper, 'nt')
hasNt(ts) == ts.hasnt
\* time_stepper.with_(nt=n)
tsWith(ts, n) == TS(ts.kind, ts.hasnt, n)

(* operator mappings: total functions over the key universe, Missing     *)
(* marking a key that is not in the dict.  operators=None behaves as {}. *)
Stationary == "StationaryDiscretization"
Instationary == "InstationaryDiscretization"

special_operators(cls) ==
    IF cls = Stationary THEN {"operator", "rhs"}
    ELSE {"operator", "mass", "rhs", "initial_data"}

AllKeys == {"operator", "mass", "rhs", "initial_data", "extra"}

EmptyMap == [k \in AllKeys |-> Missing]
MapOf(o, r, m, i, x) ==
    [k \in AllKeys |-> CASE k = "operator" -> o [] k = "rhs" -> r [] k = "mass" -> m
                         [] k = "initial_data" -> i [] OTHER -> x]
keysOf(m) == {k \in AllKeys : m[k] # Missing}


(* ------------------------------------------------------------------ *)
(* Instances                                                           *)
(* ------------------------------------------------------------------ *)
Inst(c, ops, at, li, pr, es, vi, cr, t, ts, nv, awa, ss) ==
    [cls |-> c, operators |-> ops, attrs |-> at, linear |-> li, products |-> pr,
     estimator |-> es, visualizer |-> vi, cache_region |-> cr, T |-> t,
     time_stepper |-> ts, num_values |-> nv, add_with_arguments |-> awa,
     solution_space |-> ss]

NoInst == Inst("none", EmptyMap, EmptyMap, FALSE, {}, "none", "none", "none", 0, tsNone, 0, {}, "-")

\* result of a constructor call: the exception class ("ok" when it returns),
\* the checks that can have raised, and the instance
Res(st, ch, i) == [status |-> st, checks |-> ch, inst |-> i]

\* line 31: special operators must be uniquely given
uniquelyGiven(kw, operators, on) ==
    kw[on] = None \/ operators[on] = Missing \/ kw[on] = operators[on]

\* lines 33-35: keyword if given, else operators.get(on)
resolve(kw, operators, on) ==
    IF kw[on] = None
    THEN (IF operators[on] = Missing THEN None ELSE operators[on])
    ELSE kw[on]

\* line 37
wellTyped(op) == op = None \/ isOperator(op)

\* variant: None counted as non-linear
allLinear_noneNonlinear(operators) ==
    \A k \in keysOf(operators) : operators[k] # None /\ linear(operators[k])

\* line 43
allLinear(operators) == \A k \in keysOf(operators) : operators[k] = None \/ linear(operators[k])

\* variant: line 40 (operators[on] = op) left out
storedOperators_notStored(so, kw, operators) == operators

\* lines 39-40: the resolved special operators are stored in the dict
storedOperators(so, kw, operators) ==
    [k \in AllKeys |-> IF k \in so THEN resolve(kw, operators, k) ELSE operators[k]]

\* variant: the requested region is not enabled
enable_caching_off(cache_region) == "none"

\* line 47: enable_caching(cache_region)
enable_caching(cache_region) == cache_region

\* DiscretizationBase.__init__ ; kw holds the special-operator keywords
DiscretizationBase_init(cls, kw, operators, products, estimator, visualizer, cache_region) ==
    LET so == special_operators(cls)
        badUnique == {on \in so : ~uniquelyGiven(kw, operators, on)}
        badType == {on \in so : uniquelyGiven(kw, operators, on)
                                   /\ ~wellTyped(resolve(kw, operators, on))}
        final == storedOperators(so, kw, operators)
        attrs == [k \in AllKeys |-> IF k \in so THEN resolve(kw, operators, k) ELSE Missing]
    IN  IF badUnique \cup badType # {}
        THEN Res("AssertionError",
                 (IF badUnique # {} THEN {"unique"} ELSE {}) \cup
                 (IF badType # {} THEN {"type"} ELSE {}), NoInst)
        ELSE Res("ok", {},
                 Inst(cls, final, attrs, allLinear(final), products, estimator, visualizer,
                      enable_caching(cache_region), 0, tsNone, 0, {}, "-"))

\* keyword arguments of the special operators as passed to DiscretizationBase.__init__
SpecialKw(o, r, m, i) == MapOf(o, r, m, i, Missing)

\* variant: rhs.linear not required
rhsIsLinearFunctional_anyRhs(op, f) == source(f) = source(op) /\ range(f) = NumpyVectorSpace1

\* line 154
rhsIsLinearFunctional(op, f) == source(f) = source(op) /\ range(f) = NumpyVectorSpace1 /\ linear(f)

\* StationaryDiscretization.__init__
StationaryDiscretization_init(operator, rhs, products, operators, estimator, visualizer, cache_region) ==
    LET b == DiscretizationBase_init(Stationary, SpecialKw(operator, rhs, Missing, Missing),
                                     operators, products, estimator, visualizer, cache_region)
        op == b.inst.attrs["operator"]
        f == b.inst.attrs["rhs"]
    IN  IF b.status # "ok" THEN b
        \* line 150: self.operator.source
        ELSE IF ~hasSpaces(op) THEN Res("AttributeError", {"operator"}, NoInst)
        \* line 153: operator.source == operator.range == rhs.source (chained)
        ELSE IF source(op) # range(op) THEN Res("AssertionError", {"space"}, NoInst)
        ELSE IF ~hasSpaces(f) THEN Res("AttributeError", {"rhs"}, NoInst)
        ELSE IF range(op) # source(f) THEN Res("AssertionError", {"space"}, NoInst)
        \* line 154
        ELSE IF ~rhsIsLinearFunctional(op, f)
             THEN Res("AssertionError", {"space"}, NoInst)
        ELSE Res("ok", {}, [b.inst EXCEPT !.solution_space = source(op)])

\* InstationaryDiscretization.__init__ ; nid is the identity a VectorOperator
\* created by this call gets
InstationaryDiscretization_init(T, initial_data, operator, rhs, mass, time_stepper, num_values, products, operators, estimator, visualizer, cache_region, nid) ==
    LET \* lines 248-249
        idata == IF isVectorArray(initial_data) THEN VectorOperator(initial_data, nid)
                 ELSE initial_data
        b == DiscretizationBase_init(Instationary, SpecialKw(operator, rhs, mass, idata),
                                     operators, products, estimator, visualizer, cache_region)
        op == b.inst.attrs["operator"]
        f == b.inst.attrs["rhs"]
        m == b.inst.attrs["mass"]
        u == b.inst.attrs["initial_data"]
    IN  IF b.status # "ok" THEN b
        \* line 255: self.operator.source
        ELSE IF ~hasSpaces(op) THEN Res("AttributeError", {"operator"}, NoInst)
        \* line 263
        ELSE IF ~isTimeStepper(time_stepper) THEN Res("AssertionError", {"time_stepper"}, NoInst)
        \* line 264
        ELSE IF ~hasSpaces(u) THEN Res("AttributeError", {"initial_data"}, NoInst)
        ELSE IF source(u) # NumpyVectorSpace1 THEN Res("AssertionError", {"space"}, NoInst)
        \* line 265
        ELSE IF ~(source(op) = range(op) /\ range(op) = range(u)) THEN Res("AssertionError", {"space"}, NoInst)
        \* lines 266-267
        ELSE IF ~(f = None \/ (linear(f) /\ source(f) = source(op) /\ range(f) = NumpyVectorSpace1))
             THEN Res("AssertionError", {"space"}, NoInst)
        \* lines 268-269
        ELSE IF ~(m = None \/ (linear(m) /\ source(m) = range(m) /\ range(m) = source(op)))
             THEN Res("AssertionError", {"space"}, NoInst)
        ELSE Res("ok", {},
                 [b.inst EXCEPT !.T = T, !.solution_space = source(op),
                                !.time_stepper = time_stepper, !.num_values = num_values,
                                \* lines 260-261
                                !.add_with_arguments =
                                    IF hasNt(time_stepper) THEN {"time_stepper_nt"} ELSE {}])

(* ------------------------------------------------------------------ *)
(* with_                                                               *)
(* ------------------------------------------------------------------ *)
\* **kwargs of a with_ call: one slot per key, holding a "missing" marker
\* when the key is not given
Kwargs(o, r, m, i, ho, ops, ts, nt, es, bg) ==
    [operator |-> o, rhs |-> r, mass |-> m, initial_data |-> i,
     hasOperators |-> ho, operators |-> ops,
     time_stepper |-> ts, time_stepper_nt |-> nt, estimator |-> es, bogus |-> bg]

NoKwargs == Kwargs(Missing, Missing, Missing, Missing, FALSE, EmptyMap, tsMissing, 0, "missing", FALSE)

SpecialNames == {"operator", "rhs", "mass", "initial_data"}

kwSpecial(kw, on) ==
    CASE on = "operator" -> kw.operator [] on = "rhs" -> kw.rhs
      [] on = "mass" -> kw.mass [] OTHER -> kw.initial_data

\* set(kwargs.keys())
kwKeys(kw) ==
    {on \in SpecialNames : kwSpecial(kw, on) # Missing}
    \cup (IF kw.hasOperators THEN {"operators"} ELSE {})
    \cup (IF kw.time_stepper # tsMissing THEN {"time_stepper"} ELSE {})
    \cup (IF kw.time_stepper_nt # 0 THEN {"time_stepper_nt"} ELSE {})
    \cup (IF kw.estimator # "missing" THEN {"estimator"} ELSE {})
    \cup (IF kw.bogus THEN {"bogus"} ELSE {})

\* the arguments of __init__ (lines 143-144 and 244-246)
init_arguments(cls) ==
    IF cls = Stationary
    THEN {"operator", "rhs", "products", "operators", "parameter_space", "estimator",
          "visualizer", "cache_region", "name"}
    ELSE {"T", "initial_data", "operator", "rhs", "mass", "time_stepper", "num_values",
          "products", "operators", "parameter_space", "estimator", "visualizer",
          "cache_region", "name"}

\* the declared reconfigurable set
with_arguments(d) == init_arguments(d.cls) \cup d.add_with_arguments

WRes(st, ch, i, dn, tc, me) ==
    [status |-> st, checks |-> ch, inst |-> i, down |-> dn, tsWithCalls |-> tc, self |-> me]

\* the generic clone: missing __init__ arguments are read from the attributes
\* of the same name, then type(self)(**kwargs) is called
ImmutableInterface_with(d, kw, nid) ==
    LET arg(on) == IF kwSpecial(kw, on) # Missing THEN kwSpecial(kw, on) ELSE d.attrs[on]
        operators == IF kw.hasOperators THEN kw.operators ELSE d.operators
        estimator == IF kw.estimator # "missing" THEN kw.estimator ELSE d.estimator
        time_stepper == IF kw.time_stepper # tsMissing THEN kw.time_stepper ELSE d.time_stepper
    IN  IF ~(kwKeys(kw) \subseteq with_arguments(d)) THEN Res("ConstError", {"keys"}, NoInst)
        ELSE IF d.cls = Stationary
        THEN StationaryDiscretization_init(arg("operator"), arg("rhs"), d.products, operators,
                                           estimator, d.visualizer, d.cache_region)
        ELSE InstationaryDiscretization_init(d.T, arg("initial_data"), arg("operator"),
                                             arg("rhs"), arg("mass"), time_stepper,
                                             d.num_values, d.products, operators, estimator,
                                             d.visualizer, d.cache_region, nid)

\* variant: the old operators dict reused as it is
mergedOperators_stale(d, kw) == d.operators

\* variant: only the special operators kept
mergedOperators_onlySpecial(d, kw) ==
    [k \in AllKeys |->
        IF k \in special_operators(d.cls)
        THEN (IF kwSpecial(kw, k) # Missing THEN kwSpecial(kw, k) ELSE d.attrs[k])
        ELSE Missing]

\* lines 60-62: the old operators dict with updated special operators
mergedOperators(d, kw) ==
    [k \in AllKeys |->
        IF k \in special_operators(d.cls)
        THEN (IF kwSpecial(kw, k) # Missing THEN kwSpecial(kw, k) ELSE d.attrs[k])
        ELSE d.operators[k]]

\* lines 65-66: kwargs.setdefault(on, None)
defaultSpecial(d, kw, on) ==
    IF on \in special_operators(d.cls) /\ kwSpecial(kw, on) = Missing THEN None
    ELSE kwSpecial(kw, on)

\* lines 60-66: the keyword arguments passed downward
downKwargs(d, kw) ==
    [kw EXCEPT !.hasOperators = TRUE,
               !.operators = IF kw.hasOperators THEN kw.operators ELSE mergedOperators(d, kw),
               !.operator = defaultSpecial(d, kw, "operator"),
               !.rhs = defaultSpecial(d, kw, "rhs"),
               !.mass = defaultSpecial(d, kw, "mass"),
               !.initial_data = defaultSpecial(d, kw, "initial_data")]

\* DiscretizationBase.with_
DiscretizationBase_with(d, kw, nid, tc) ==
    \* line 56
    IF ~(kwKeys(kw) \subseteq with_arguments(d))
    THEN WRes("AssertionError", {"keys"}, NoInst, NoKwargs, tc, d)
    ELSE LET down == downKwargs(d, kw)
             r == ImmutableInterface_with(d, down, nid)
         IN  WRes(r.status, r.checks, r.inst, down, tc, d)

\* variant: line 273 left out
notBoth_unchecked(kw) == TRUE

\* line 273
notBoth(kw) == kw.time_stepper_nt = 0 \/ kw.time_stepper = tsMissing

\* InstationaryDiscretization.with_
InstationaryDiscretization_with(d, kw, nid) ==
    \* line 272
    IF ~(kwKeys(kw) \subseteq with_arguments(d))
    THEN WRes("AssertionError", {"keys"}, NoInst, NoKwargs, 0, d)
    ELSE IF ~notBoth(kw)
    THEN WRes("AssertionError", {"both"}, NoInst, NoKwargs, 0, d)
    \* lines 274-275
    ELSE IF kw.time_stepper_nt # 0
    THEN DiscretizationBase_with(d, [kw EXCEPT !.time_stepper = tsWith(d.time_stepper, kw.time_stepper_nt),
                                                 !.time_stepper_nt = 0], nid, 1)
    ELSE DiscretizationBase_with(d, kw, nid, 0)

with_(d, kw, nid) ==
    IF d.cls = Stationary THEN DiscretizationBase_with(d, kw, nid, 0)
    ELSE InstationaryDiscretization_with(d, kw, nid)

(* ------------------------------------------------------------------ *)
(* visualize, estimate, _solve                                         *)
(* ------------------------------------------------------------------ *)
\* a parameter: whether it matches the parameter type, its value and its
\* '_t' entry (-1: no such entry)
Mu(v, p0, t0) == [valid |-> v, p |-> p0, t |-> t0]
NoMu == Mu(FALSE, 0, -1)

SolveArgs(o, f, u, m, t0, t1, nv) ==
    [operator |-> o, rhs |-> f, initial_data |-> u, mass |-> m,
     initial_time |-> t0, end_time |-> t1, num_values |-> nv]
NoArgs == SolveArgs(Missing, Missing, Missing, Missing, 0, 0, 0)

\* one call: the function, its arguments and what it returned
CallRec(fn0, target, U0, mu, d, kw, a, r) ==
    [fn |-> fn0, on |-> target, U |-> U0, mu |-> mu, discretization |-> d, kwargs |-> kw,
     args |-> a, result |-> r]

CRes(st, r, cs, m) == [status |-> st, ret |-> r, calls |-> cs, callerMu |-> m]

\* DiscretizationBase.visualize ; the visualizer returns r, visualize returns None
visualize(d, U, kwargs, r) ==
    IF d.visualizer # "none"
    THEN CRes("ok", "None",
              <<CallRec("visualizer.visualize", Missing, U, NoMu, d, kwargs, NoArgs, r)>>, NoMu)
    ELSE CRes("NotImplementedError", "None", <<>>, NoMu)

\* variant: the estimator is not given the discretization
estimate_noSelf(d, U, mu, r) ==
    IF d.estimator # "none"
    THEN CRes("ok", r,
              <<CallRec("estimator.estimate", Missing, U, mu, NoInst, "none", NoArgs, r)>>, mu)
    ELSE CRes("NotImplementedError", "None", <<>>, mu)

\* DiscretizationBase.estimate ; the estimator returns r
estimate(d, U, mu, r) ==
    IF d.estimator # "none"
    THEN CRes("ok", r,
              <<CallRec("estimator.estimate", Missing, U, mu, d, "none", NoArgs, r)>>, mu)
    ELSE CRes("NotImplementedError", "None", <<>>, mu)

\* parse_parameter(mu): fails unless mu matches the parameter type
parse_parameter(mu) == mu.valid

\* StationaryDiscretization._solve ; as_source_array returns v, apply_inverse returns r
StationaryDiscretization_solve(d, mu, v, r) ==
    LET c1 == CallRec("parse_parameter", Missing, "-", mu, NoInst, "none", NoArgs, "-")
        c2 == CallRec("as_source_array", d.attrs["rhs"], "-", mu, NoInst, "none", NoArgs, v)
        c3 == CallRec("apply_inverse", d.attrs["operator"], v, mu, NoInst, "none", NoArgs, r)
    IN  IF ~parse_parameter(mu) THEN CRes("ParameterError", "None", <<c1>>, mu)
        ELSE CRes("ok", r, <<c1, c2, c3>>, mu)

\* variant: line 285 left out
setTime_unchanged(mu) == mu

\* line 285: mu['_t'] = 0
setTime(mu) == [mu EXCEPT !.t = 0]

\* variant: no copy is made, the local name refers to the caller's object
copyTarget_alias == "caller"

\* line 279: .copy() makes the local name refer to a new object
copyTarget == "local"

\* InstationaryDiscretization._solve ; as_range_array returns u, the time
\* stepper returns r.  objs holds the caller's parameter object and the
\* object the local name mu refers to.
InstationaryDiscretization_solve(d, mu, u, r) ==
    LET objs0 == [caller |-> mu, local |-> NoMu]
        \* line 279
        ref == copyTarget
        objs1 == [objs0 EXCEPT ![ref] = objs0.caller]
        \* line 285
        objs2 == [objs1 EXCEPT ![ref] = setTime(objs1[ref])]
        c1 == CallRec("parse_parameter", Missing, "-", mu, NoInst, "none", NoArgs, "-")
        c2 == CallRec("copy", Missing, "-", mu, NoInst, "none", NoArgs, "-")
        \* line 286
        c3 == CallRec("as_range_array", d.attrs["initial_data"], "-", objs2[ref], NoInst, "none",
                      NoArgs, u)
        \* lines 287-288
        c4 == CallRec("time_stepper.solve", Missing, "-", objs2[ref], NoInst, "none",
                      SolveArgs(d.attrs["operator"], d.attrs["rhs"], u, d.attrs["mass"],
                                0, d.T, d.num_values), r)
    IN  IF ~parse_parameter(mu) THEN CRes("ParameterError", "None", <<c1>>, mu)
        ELSE CRes("ok", r, <<c1, c2, c3, c4>>, objs2.caller)

_solve(d, mu, u, r) ==
    IF d.cls = Stationary THEN StationaryDiscretization_solve(d, mu, u, r)
    ELSE InstationaryDiscretization_solve(d, mu, u, r)

\* the key of a cached call: discretization identity, method, argument fingerprint
cacheKey(i, mu) == <<i, "solve", mu>>

\* solve(mu) through the cache region: lookup, else compute and store.
\* Returns the outcome and the new content of the region.
solve(d, i, region, mu, u, r) ==
    LET key == cacheKey(i, mu)
        stored == {e \in region : e.key = key}
        computed == _solve(d, mu, u, r)
    IN  IF d.cache_region = "none" \/ ~mu.valid
        THEN [res |-> computed, region |-> region, ran |-> computed.status = "ok"]
        ELSE IF stored # {}
        THEN [res |-> CRes("ok", (CHOOSE e \in stored : TRUE).value, <<>>, mu),
              region |-> region, ran |-> FALSE]
        ELSE [res |-> computed,
              region |-> region \cup {[key |-> key, value |-> computed.ret]}, ran |-> TRUE]

(* ------------------------------------------------------------------ *)
(* Inputs                                                              *)
(* ------------------------------------------------------------------ *)
OperatorPool == {None, L, N, F}
RhsPool == {None, F, G, Fn, L}
MassPool == {None, L, N}
InitialDataPool == {None, I0, u0, E, junk}
TimeStepperPool == {tsJunk, tsPlain, tsNt(1)}
NtPool == 2..(MaxNt + 1)

\* additional operators are Operators or None; a special-operator key may
\* hold anything
MapPool(cls) ==
    {m \in {EmptyMap,
            MapOf(Missing, Missing, Missing, Missing, N),
            MapOf(Missing, G, Missing, Missing, Missing),
            MapOf(L, F, Missing, Missing, Missing),
            MapOf(Missing, junk, Missing, Missing, Missing),
            MapOf(Missing, Missing, Missing, u0, Missing)} :
        \A k \in AllKeys \ special_operators(cls) : m[k] = Missing \/ wellTyped(m[k])}

Aux(pr, es, vi, cr, nv) ==
    [products |-> pr, estimator |-> es, visualizer |-> vi, cache_region |-> cr, num_values |-> nv]
AuxPool == {Aux({"h1"}, "none", "vis", "memory", 2)}

\* the arguments of a constructor call
Input(c, o, r, m, i, ops, ts, a) ==
    [cls |-> c, operator |-> o, rhs |-> r, mass |-> m, initial_data |-> i,
     operators |-> ops, time_stepper |-> ts, aux |-> a]
NoInput == Input("none", Missing, Missing, Missing, Missing, EmptyMap, tsMissing,
                 Aux({}, "none", "none", "none", 0))

construct(in, nid) ==
    IF in.cls = Stationary
    THEN StationaryDiscretization_init(in.operator, in.rhs, in.aux.products, in.operators,
                                       in.aux.estimator, in.aux.visualizer, in.aux.cache_region)
    ELSE InstationaryDiscretization_init(1, in.initial_data, in.operator, in.rhs, in.mass,
                                         in.time_stepper, in.aux.num_values, in.aux.products,
                                         in.operators, in.aux.estimator, in.aux.visualizer,
                                         in.aux.cache_region, nid)

(* ------------------------------------------------------------------ *)
(* State                                                               *)
(* ------------------------------------------------------------------ *)
VARIABLES
    cur,      \* the instance the last successful construction or with_ returned
    prev,     \* the receiver of the last with_ call, as it is after the call
    old,      \* the receiver of the last with_ call, as it was before the call
    res,      \* the last constructor or with_ call: arguments and outcome
    nextId,   \* identities handed out to VectorOperators so far
    calls,    \* calls the last operation made, in order
    discs,    \* the discretizations estimate, visualize and solve are called on
    ins,      \* the constructor arguments discs were built from
    out,      \* the last estimate, visualize or solve call: arguments and outcome
    cache,    \* the cache region: entries [key, value]
    runs,     \* the computations _solve ran: [key, n, ret], n-th for its key
    nSolves   \* solve calls so far

vars == <<cur, prev, old, res, nextId, calls, discs, ins, out, cache, runs, nSolves>>
cvars == <<discs, ins, out, cache, runs, nSolves>>
mvars == <<cur, prev, old, res, nextId>>

Call(op0, in, kw, r, dn, tc) ==
    [op |-> op0, input |-> in, kwargs |-> kw, status |-> r.status, checks |-> r.checks,
     down |-> dn, tsWithCalls |-> tc]

NoRes == [status |-> "none", checks |-> {}, inst |-> NoInst]

Out(op0, i, U0, mu, kw, r, rn) ==
    [op |-> op0, d |-> i, U |-> U0, mu |-> mu, kwargs |-> kw, status |-> r.status,
     ret |-> r.ret, callerMu |-> r.callerMu, ran |-> rn]
NoOut == Out("none", 0, "-", NoMu, "none", CRes("none", "None", <<>>, NoMu), FALSE)

\* the parameters solve is called with where a cache region is shared
CacheMuPool == {Mu(TRUE, 1, -1), Mu(TRUE, 2, -1), Mu(FALSE, 1, -1)}
\* the computations recorded for a key, and the result of the n-th of them
runsOf(key) == {e \in runs : e.key = key}
runResult(key, n) == (CHOOSE e \in runsOf(key) : e.n = n).ret

Init ==
    /\ cur = NoInst
    /\ prev = NoInst
    /\ old = NoInst
    /\ res = Call("none", NoInput, NoKwargs, NoRes, NoKwargs, 0)
    /\ nextId = 0
    /\ calls = <<>>
    /\ discs = <<>>
    /\ ins = <<>>
    /\ out = NoOut
    /\ cache = {}
    /\ runs = {}
    /\ nSolves = 0

Constructed(in) ==
    \E r \in {construct(in, nextId)} :
        /\ res' = Call("init", in, NoKwargs, r, NoKwargs, 0)
        /\ cur' = r.inst
        /\ nextId' = IF r.status = "ok" /\ isVectorArray(in.initial_data) THEN nextId + 1 ELSE nextId
        /\ UNCHANGED <<prev, old, calls, cvars>>

ConstructStationary ==
    /\ res.op = "none"
    /\ \E o \in OperatorPool, r \in RhsPool, ops \in MapPool(Stationary), a \in AuxPool :
        Constructed(Input(Stationary, o, r, Missing, Missing, ops, tsMissing, a))

ConstructInstationary ==
    /\ res.op = "none"
    /\ \E o \in OperatorPool, r \in RhsPool, m \in MassPool, i \in InitialDataPool,
          ops \in MapPool(Instationary), ts \in TimeStepperPool, a \in AuxPool :
        Constructed(Input(Instationary, o, r, m, i, ops, ts, a))

\* kwargs with one more key given
OneKey(kw, d) ==
    {[kw EXCEPT !.operator = v] : v \in OperatorPool}
    \cup {[kw EXCEPT !.rhs = v] : v \in RhsPool}
    \cup {[kw EXCEPT !.mass = v] : v \in MassPool}
    \cup {[kw EXCEPT !.initial_data = v] : v \in InitialDataPool}
    \cup {[kw EXCEPT !.hasOperators = TRUE, !.operators = m] : m \in MapPool(d.cls)}
    \cup {[kw EXCEPT !.time_stepper = ts] : ts \in TimeStepperPool}
    \cup {[kw EXCEPT !.time_stepper_nt = n] : n \in NtPool}
    \cup {[kw EXCEPT !.estimator = e] : e \in {"none", "est"}}
    \cup {[kw EXCEPT !.bogus = TRUE]}

\* kwargs with two keys given
TwoKeys ==
    LET ops(m) == [NoKwargs EXCEPT !.hasOperators = TRUE, !.operators = m]
        nt(n) == [NoKwargs EXCEPT !.time_stepper_nt = n]
    IN  {[ops(MapOf(Missing, G, Missing, Missing, Missing)) EXCEPT !.rhs = G],
         [ops(MapOf(Missing, G, Missing, Missing, Missing)) EXCEPT !.rhs = F],
         [ops(MapOf(L, F, Missing, Missing, Missing)) EXCEPT !.operator = N],
         [ops(MapOf(L, F, Missing, Missing, Missing)) EXCEPT !.initial_data = u0],
         [ops(EmptyMap) EXCEPT !.operator = L],
         [nt(2) EXCEPT !.time_stepper = tsPlain],
         [nt(2) EXCEPT !.rhs = G],
         [nt(2) EXCEPT !.rhs = Fn],
         [nt(2) EXCEPT !.bogus = TRUE],
         [NoKwargs EXCEPT !.operator = N, !.rhs = G],
         [NoKwargs EXCEPT !.mass = L, !.rhs = None],
         [NoKwargs EXCEPT !.estimator = "est", !.initial_data = I0]}

WithKwargs(kw) ==
    \E r \in {with_(cur, kw, nextId)} :
        /\ res' = Call("with", NoInput, kw, r, r.down, r.tsWithCalls)
        /\ old' = cur
        /\ prev' = r.self
        /\ cur' = r.inst
        /\ nextId' = IF r.status = "ok" /\ isVectorArray(r.down.initial_data)
                      THEN nextId + 1 ELSE nextId
        /\ UNCHANGED <<calls, cvars>>

With ==
    /\ cur # NoInst
    /\ res.op \in {"init", "rebind"}
    /\ nextId < MaxAlloc
    /\ \/ WithKwargs(NoKwargs)
       \/ \E kw \in OneKey(NoKwargs, cur) \cup TwoKeys : WithKwargs(kw)

\* d = d.with_(...): the caller keeps the returned instance only
Rebind ==
    /\ res.op = "with"
    /\ res.status = "ok"
    /\ res' = Call("rebind", NoInput, NoKwargs, NoRes, NoKwargs, 0)
    /\ old' = NoInst
    /\ prev' = NoInst
    /\ UNCHANGED <<cur, nextId, calls, cvars>>

Next == ConstructStationary \/ ConstructInstationary \/ With \/ Rebind

Spec == Init /\ [][Next]_vars

(* ------------------------------------------------------------------ *)
(* estimate, visualize and _solve on a constructed discretization      *)
(* ------------------------------------------------------------------ *)
MuPool == {Mu(v, p, t) : v \in BOOLEAN, p \in 1..2, t \in -1..MaxT}
UPool == {"U1", "U2"}
ResultPool == {"r1", "r2"}
VectorPool == {"v1", "v2"}

CallInputs ==
    {Input(Stationary, L, F, Missing, Missing, EmptyMap, tsMissing, a) :
        a \in {Aux({}, e, v, "none", 0) : e \in {"none", "est"}, v \in {"none", "vis"}}}
    \cup
    {Input(Instationary, N, f, m, i, EmptyMap, tsNt(1), Aux({}, e, "vis", "none", 2)) :
        f \in {None, G}, m \in {None, L}, i \in {I0, u0}, e \in {"none", "est"}}

Built(inputs) == {in \in inputs : construct(in, 0).status = "ok"}

InitCalls ==
    /\ cur = NoInst
    /\ prev = NoInst
    /\ old = NoInst
    /\ res = Call("none", NoInput, NoKwargs, NoRes, NoKwargs, 0)
    /\ nextId = 0
    /\ calls = <<>>
    /\ \E in \in Built(CallInputs) :
          /\ ins = <<in>>
          /\ discs = <<construct(in, 0).inst>>
    /\ out = NoOut
    /\ cache = {}
    /\ runs = {}
    /\ nSolves = 0

Estimate ==
    \E U \in UPool, mu \in {NoMu, Mu(TRUE, 1, -1)}, r \in ResultPool :
        LET c == estimate(discs[1], U, mu, r)
        IN  /\ out' = Out("estimate", 1, U, mu, "none", c, FALSE)
            /\ calls' = c.calls
            /\ UNCHANGED <<mvars, discs, ins, cache, runs, nSolves>>

Visualize ==
    \E U \in UPool, kw \in {"none", "legend"}, r \in ResultPool :
        LET c == visualize(discs[1], U, kw, r)
        IN  /\ out' = Out("visualize", 1, U, NoMu, kw, c, FALSE)
            /\ calls' = c.calls
            /\ UNCHANGED <<mvars, discs, ins, cache, runs, nSolves>>

DirectSolve ==
    \E mu \in MuPool, u \in VectorPool, r \in ResultPool :
        LET c == _solve(discs[1], mu, u, r)
        IN  /\ out' = Out("_solve", 1, "-", mu, "none", c, c.status = "ok")
            /\ calls' = c.calls
            /\ UNCHANGED <<mvars, discs, ins, cache, runs, nSolves>>

NextCalls == Estimate \/ Visualize \/ DirectSolve

SpecCalls == InitCalls /\ [][NextCalls]_vars

(* ------------------------------------------------------------------ *)
(* solve on discretizations sharing a cache region                     *)
(* ------------------------------------------------------------------ *)
CacheInputs1 ==
    {Input(Stationary, L, F, Missing, Missing, EmptyMap, tsMissing, Aux({}, "none", "none", "memory", 0)),
     Input(Instationary, L, None, None, u0, EmptyMap, tsPlain, Aux({}, "none", "none", "memory", 0))}
CacheInputs2 ==
    {Input(Stationary, L, F, Missing, Missing, EmptyMap, tsMissing, Aux({}, "none", "none", "memory", 0)),
     Input(Stationary, L, F, Missing, Missing, EmptyMap, tsMissing, Aux({}, "none", "none", "none", 0))}

InitCache ==
    /\ cur = NoInst
    /\ prev = NoInst
    /\ old = NoInst
    /\ res = Call("none", NoInput, NoKwargs, NoRes, NoKwargs, 0)
    /\ nextId = 0
    /\ calls = <<>>
    /\ \E in1 \in Built(CacheInputs1), in2 \in Built(CacheInputs2) :
          /\ ins = <<in1, in2>>
          /\ discs = <<construct(in1, 0).inst, construct(in2, 0).inst>>
    /\ out = NoOut
    /\ cache = {}
    /\ runs = {}
    /\ nSolves = 0

Solve ==
    /\ nSolves < MaxSolves
    /\ \E i \in 1..2, mu \in CacheMuPool, u \in VectorPool, r \in ResultPool :
        LET s == solve(discs[i], i, cache, mu, u, r)
        IN  /\ out' = Out("solve", i, "-", mu, "none", s.res, s.ran)
            /\ calls' = s.res.calls
            /\ cache' = s.region
            /\ runs' = IF s.ran
                        THEN runs \cup {[key |-> cacheKey(i, mu),
                                         n |-> Cardinality(runsOf(cacheKey(i, mu))) + 1,
                                         ret |-> s.res.ret]}
                        ELSE runs
            /\ nSolves' = nSolves + 1
            /\ UNCHANGED <<mvars, discs, ins>>

NextCache == Solve

SpecCache == InitCache /\ [][NextCache]_vars

(* ------------------------------------------------------------------ *)
(* Properties of construction and with_                                *)
(* ------------------------------------------------------------------ *)
withCall == res.op = "with"
withOk == res.op = "with" /\ res.status = "ok"
givenSpecials(kw) == {on \in SpecialNames : kwSpecial(kw, on) # Missing}

\* the space/linearity requirements, stated on the operators of an instance
StationaryRequirements(o, f) ==
    /\ isOperator(o) /\ isOperator(f)
    /\ source(o) = range(o) /\ range(o) = source(f)
    /\ range(f) = "R1" /\ linear(f)
InstationaryRequirements(o, f, m, u, ts) ==
    /\ isTimeStepper(ts)
    /\ isOperator(o) /\ isOperator(u)
    /\ source(u) = "R1"
    /\ source(o) = range(o) /\ range(o) = range(u)
    /\ f = None \/ (isOperator(f) /\ linear(f) /\ source(f) = source(o) /\ range(f) = "R1")
    /\ m = None \/ (isOperator(m) /\ linear(m) /\ source(m) = source(o) /\ range(m) = source(o))
Requirements(cls, at, ts) ==
    IF cls = Stationary THEN StationaryRequirements(at["operator"], at["rhs"])
    ELSE InstationaryRequirements(at["operator"], at["rhs"], at["mass"], at["initial_data"], ts)

\* C1: in every instance returned by a construction or a with_ call, each
\* special operator has an entry in the operators mapping and that entry is
\* the same object as the attribute of that name (both None when absent).
C1_SpecialOperatorsAgree ==
    cur # NoInst =>
        \A n \in special_operators(cur.cls) :
            /\ cur.operators[n] # Missing
            /\ cur.attrs[n] # Missing
            /\ cur.operators[n] = cur.attrs[n]

\* a with_ call with an explicit operators override and a keyword has
\* returned an instance whose mass is absent
C1_Witness ==
    /\ withOk
    /\ res.kwargs.hasOperators
    /\ givenSpecials(res.kwargs) # {}
    /\ cur.cls = Instationary
    /\ cur.attrs["mass"] = None /\ cur.operators["mass"] = None
    /\ cur.attrs["operator"] = L /\ cur.operators["operator"] = L

\* the with_ call overrode exactly the special operator n by the operator v,
\* and v satisfies the requirements of the receiver's class
singleOverride(n, v) ==
    /\ withCall
    /\ kwKeys(res.kwargs) = {n}
    /\ n \in special_operators(old.cls)
    /\ kwSpecial(res.kwargs, n) = v
    /\ isOperator(v)
    /\ Requirements(old.cls, [old.attrs EXCEPT ![n] = v], old.time_stepper)

\* C2: d.with_(n=v) for a special operator n and a valid replacement
\* operator v returns a new instance whose mapping entry and attribute n are
\* v, whose other mapping entries are those of d, and leaves d unchanged.
C2_SingleOverride ==
    \A n \in SpecialNames : \A v \in {L, N, F, G, Fn, I0, E} :
        singleOverride(n, v) =>
            /\ res.status = "ok"
            /\ cur.operators[n] = v
            /\ cur.attrs[n] = v
            /\ \A k \in AllKeys \ {n} : cur.operators[k] = old.operators[k]
            /\ prev = old

\* with_(rhs=G) on an instance whose rhs was F and that has an additional operator
C2_Witness ==
    /\ singleOverride("rhs", G)
    /\ old.attrs["rhs"] = F
    /\ old.operators["extra"] = N
    /\ cur.attrs["rhs"] = G

\* C3: with_() without overrides succeeds and returns an instance with the
\* same operators mapping, special-operator attributes, products, estimator,
\* visualizer, linear flag, T, time_stepper, num_values and reconfigurable
\* keys as the receiver (so a further with_() changes nothing either).
C3_NoOverrides ==
    (withCall /\ res.kwargs = NoKwargs) =>
        /\ res.status = "ok"
        /\ cur.cls = old.cls
        /\ cur.operators = old.operators
        /\ cur.attrs = old.attrs
        /\ cur.products = old.products
        /\ cur.estimator = old.estimator
        /\ cur.visualizer = old.visualizer
        /\ cur.linear = old.linear
        /\ cur.T = old.T
        /\ cur.time_stepper = old.time_stepper
        /\ cur.num_values = old.num_values
        /\ with_arguments(cur) = with_arguments(old)

\* with_() on an instationary instance built from a raw vector, with mass
\* and rhs None and an additional operator
C3_Witness ==
    /\ withOk /\ res.kwargs = NoKwargs
    /\ old.cls = Instationary
    /\ isVectorOperator(old.attrs["initial_data"])
    /\ old.attrs["mass"] = None /\ old.attrs["rhs"] = None
    /\ old.operators["extra"] = N
    /\ cur = old

illegalRequest ==
    /\ withCall
    /\ \/ ~(kwKeys(res.kwargs) \subseteq with_arguments(old))
       \/ /\ old.cls = Instationary
          /\ {"time_stepper", "time_stepper_nt"} \subseteq kwKeys(res.kwargs)

\* C4: a with_ call with a key outside the reconfigurable set, or with both
\* time_stepper and time_stepper_nt, fails at once: no instance is returned,
\* the receiver is unchanged and the time stepper's with_ is not called;
\* time_stepper_nt is reconfigurable only if the time stepper has nt.
C4_IllegalRequestsRejected ==
    /\ illegalRequest =>
          /\ res.status # "ok"
          /\ cur = NoInst
          /\ prev = old
          /\ res.tsWithCalls = 0
    /\ cur # NoInst =>
          ("time_stepper_nt" \in with_arguments(cur) => hasNt(cur.time_stepper))

\* both time_stepper and time_stepper_nt given, all keys being allowed
C4_Witness ==
    /\ illegalRequest
    /\ kwKeys(res.kwargs) \subseteq with_arguments(old)
    /\ res.status = "AssertionError"
    /\ res.checks = {"both"}

\* C8: the linear flag of every instance is the conjunction over the values
\* of its operators mapping of (None or linear); overriding an operator by
\* a non-linear one makes the new instance non-linear and leaves the flag
\* of the receiver as it was.
C8_LinearFlag ==
    /\ cur # NoInst =>
          (cur.linear <=> \A k \in AllKeys :
                cur.operators[k] \in {Missing, None} \/ linear(cur.operators[k]))
    /\ (withOk /\ ~res.kwargs.hasOperators
           /\ \E n \in givenSpecials(res.kwargs) :
                  isOperator(kwSpecial(res.kwargs, n)) /\ ~linear(kwSpecial(res.kwargs, n)))
          => (~cur.linear /\ prev.linear = old.linear)

\* a linear instance with an absent rhs was given a non-linear operator
C8_Witness ==
    /\ withOk
    /\ res.kwargs.operator = N
    /\ old.linear /\ prev.linear /\ ~cur.linear
    /\ old.attrs["rhs"] = None

\* the special operators a constructor call resolves from its arguments:
\* the keyword if given, else the mapping entry (a raw vector given as
\* initial data being wrapped first)
inputKeyword(in, on) ==
    CASE on = "operator" -> in.operator
      [] on = "rhs" -> in.rhs
      [] on = "mass" -> in.mass
      [] OTHER -> IF isVectorArray(in.initial_data) THEN VectorOperator(in.initial_data, 0)
                  ELSE in.initial_data
inputResolved(in) ==
    [on \in AllKeys |->
        IF on \notin special_operators(in.cls) THEN Missing
        ELSE IF inputKeyword(in, on) # None THEN inputKeyword(in, on)
        ELSE IF in.operators[on] = Missing THEN None
        ELSE in.operators[on]]
inputSatisfies(in) == Requirements(in.cls, inputResolved(in), in.time_stepper)
inputUnique(in) ==
    \A on \in special_operators(in.cls) :
        inputKeyword(in, on) = None \/ in.operators[on] = Missing
            \/ inputKeyword(in, on) = in.operators[on]
requiredIsNone(in) ==
    \E on \in (IF in.cls = Stationary THEN {"operator", "rhs"} ELSE {"operator", "initial_data"}) :
        inputResolved(in)[on] = None

neverInvalid == cur # NoInst => Requirements(cur.cls, cur.attrs, cur.time_stepper)
constructedOk == res.status = "ok" /\ cur # NoInst /\ cur.solution_space = source(cur.attrs["operator"])

\* C6 as stated: no instance violating the space/linearity requirements is
\* returned; every input satisfying them constructs with solution_space ==
\* operator.source; every violating input fails with an AssertionError before
\* any collaborator is called.
C6_AsStated ==
    /\ neverInvalid
    /\ res.op = "init" =>
          IF inputSatisfies(res.input) THEN constructedOk
          ELSE res.status = "AssertionError" /\ cur = NoInst /\ calls = <<>>

\* C6 amended: no instance violating the space/linearity requirements is
\* returned by a constructor or by with_; every input whose special
\* operators are uniquely given and satisfy the requirements constructs with
\* solution_space == operator.source; every violating input fails before any
\* collaborator is called, with an AssertionError, or with an AttributeError
\* when a required operator resolves to None.
C6_Amended ==
    /\ neverInvalid
    /\ res.op = "init" =>
          IF inputSatisfies(res.input)
          THEN IF inputUnique(res.input) THEN constructedOk
               ELSE res.status = "AssertionError" /\ cur = NoInst
          ELSE /\ res.status \in {"AssertionError", "AttributeError"}
               /\ res.status = "AttributeError" => requiredIsNone(res.input)
               /\ cur = NoInst
               /\ calls = <<>>

\* a stationary construction without rhs has failed
C6_Witness ==
    /\ res.op = "init"
    /\ res.input.cls = Stationary
    /\ res.input.operator = L
    /\ inputResolved(res.input)["rhs"] = None
    /\ res.status = "AttributeError"
    /\ cur = NoInst

\* the values a constructor takes for the fields a with_ call overrides
acceptedValues(kw) ==
    /\ \A on \in givenSpecials(kw) :
          wellTyped(kwSpecial(kw, on)) \/ (on = "initial_data" /\ isVectorArray(kwSpecial(kw, on)))
    /\ kw.hasOperators => \A k \in keysOf(kw.operators) : wellTyped(kw.operators[k])

\* C9: the new instance's special operators come from the operators mapping
\* alone, so no with_ call with allowed keys and values the constructor
\* takes (an operators mapping together with a special-operator keyword, a
\* raw length-1 vector for initial_data) fails with the constructor's check
\* that special operators are uniquely given.
C9_AsStated ==
    (/\ withCall
     /\ kwKeys(res.kwargs) \subseteq with_arguments(old)
     /\ notBoth(res.kwargs)
     /\ acceptedValues(res.kwargs))
      => "unique" \notin res.checks

(* ------------------------------------------------------------------ *)
(* Properties of estimate, visualize and solve                         *)
(* ------------------------------------------------------------------ *)
\* C5: estimate and visualize fail with NotImplementedError, calling nothing,
\* exactly when no estimator / visualizer is configured; otherwise the call
\* is forwarded once with the same U (and mu / kwargs) and the discretization
\* itself, and estimate returns what the estimator returned.
C5_Forwarding ==
    /\ out.op = "estimate" =>
          IF ins[out.d].aux.estimator = "none"
          THEN out.status = "NotImplementedError" /\ calls = <<>>
          ELSE /\ out.status = "ok"
               /\ Len(calls) = 1
               /\ calls[1].fn = "estimator.estimate"
               /\ calls[1].U = out.U
               /\ calls[1].mu = out.mu
               /\ calls[1].discretization = discs[out.d]
               /\ out.ret = calls[1].result
    /\ out.op = "visualize" =>
          IF ins[out.d].aux.visualizer = "none"
          THEN out.status = "NotImplementedError" /\ calls = <<>>
          ELSE /\ out.status = "ok"
               /\ Len(calls) = 1
               /\ calls[1].fn = "visualizer.visualize"
               /\ calls[1].U = out.U
               /\ calls[1].kwargs = out.kwargs
               /\ calls[1].discretization = discs[out.d]

\* estimate was forwarded to the estimator of an instationary discretization
C5_Witness ==
    /\ out.op = "estimate"
    /\ out.status = "ok"
    /\ discs[1].cls = Instationary
    /\ calls[1].discretization = discs[1]
    /\ out.ret = "r2"

cachedDisc(i) == ins[i].aux.cache_region # "none"
computations(cs) ==
    {n \in 1..Len(cs) : cs[n].fn \in {"apply_inverse", "time_stepper.solve"}}

C10_SolveSteps ==
    (out.op = "_solve" /\ discs[out.d].cls = Instationary) =>
        LET d == discs[out.d]
            mu0 == [out.mu EXCEPT !.t = 0]
        IN  /\ out.callerMu = out.mu
            /\ IF out.mu.valid
               THEN /\ out.status = "ok"
                    /\ Len(calls) = 4
                    /\ calls[1].fn = "parse_parameter" /\ calls[1].mu = out.mu
                    /\ calls[2].fn = "copy"
                    /\ calls[3].fn = "as_range_array"
                    /\ calls[3].on = d.attrs["initial_data"]
                    /\ calls[3].mu = mu0
                    /\ calls[4].fn = "time_stepper.solve"
                    /\ calls[4].mu = mu0
                    /\ calls[4].args = SolveArgs(d.attrs["operator"], d.attrs["rhs"],
                                                 calls[3].result, d.attrs["mass"], 0, d.T,
                                                 d.num_values)
                    /\ out.ret = calls[4].result
               ELSE /\ out.status = "ParameterError"
                    /\ Len(calls) = 1
                    /\ calls[1].fn = "parse_parameter"

\* _solve ran with a mu whose '_t' was not 0
C10_Witness ==
    /\ out.op = "_solve" /\ discs[out.d].cls = Instationary
    /\ out.mu.valid /\ out.mu.t = MaxT
    /\ out.status = "ok"
    /\ calls[4].mu.t = 0
    /\ out.callerMu.t = MaxT
    /\ calls[4].args.mass = None

====
